---- MODULE Spec2Model ----
(***************************************************************************)
(* Model of models/vp_att_enc_mh.py: MH_Linear, SCAttEnc,                  *)
(* MultiHeadAttentionEnc and VP_Refine_Module.                             *)
(*                                                                         *)
(* Every tensor is tracked twice.  Its SHAPE is the true torch shape (a    *)
(* tuple of integers), so the literals 8 (SCAttEnc's MH_Linear heads) and  *)
(* 1024 (the final LayerNorm) act on the real dimensions.  Its VALUE is a  *)
(* nested sequence of integers in which the head_dim channels of a head    *)
(* are represented by one channel, so a row of embed_dim channels holds    *)
(* att_heads numbers.  Reals are integers: products and sums are exact,    *)
(* quotients are floored, probabilities are in units of 1/One, and exp     *)
(* underflows to exactly 0 below -ExpRange as it does in floating point.   *)
(* Division by zero gives NaN, which every operation propagates.  Overflow *)
(* to infinity is not modelled.  Dropout is the identity (evaluation       *)
(* mode).                                                                  *)
(***************************************************************************)
EXTENDS Integers, Sequences, FiniteSets, TLC

\* ------------------------------------------------------------------------
\* Bounds of the model
\* ------------------------------------------------------------------------
MaxLayers == 2
NumRegions == 2

\* ------------------------------------------------------------------------
\* Literals of the source
\* ------------------------------------------------------------------------
SCAttHeads == 8
FinalNormDim == 1024
MaskFill == -1000000000

\* ------------------------------------------------------------------------
\* Arithmetic
\* ------------------------------------------------------------------------
NaN == -2147483647
One == 256
ExpRange == 20

IsNaN(x) == x = NaN
Add(a, b) == IF IsNaN(a) \/ IsNaN(b) THEN NaN ELSE a + b
Mul(a, b) == IF IsNaN(a) \/ IsNaN(b) THEN NaN ELSE a * b
Div(a, b) == IF IsNaN(a) \/ IsNaN(b) \/ b = 0 THEN NaN ELSE a \div b
Clamp(x, lo, hi) == IF IsNaN(x) THEN NaN ELSE IF x < lo THEN lo ELSE IF x > hi THEN hi ELSE x

RECURSIVE SumSeq(_)
SumSeq(s) == IF s = <<>> THEN 0 ELSE Add(Head(s), SumSeq(Tail(s)))

RECURSIVE MaxSeq(_)
MaxSeq(s) == IF Len(s) = 1 THEN s[1]
             ELSE LET m == MaxSeq(Tail(s)) IN IF s[1] > m THEN s[1] ELSE m

RECURSIVE Pow2(_)
Pow2(n) == IF n = 0 THEN 1 ELSE 2 * Pow2(n - 1)

RECURSIVE Prod(_)
Prod(s) == IF s = <<>> THEN 1 ELSE Head(s) * Prod(Tail(s))

\* the sequence << F(1), ..., F(n) >>, with every element evaluated
Tab(n, F(_)) == [tab_k \in 1..n |-> F(tab_k)] \o <<>>

Last(s) == s[Len(s)]
ButLast(s) == SubSeq(s, 1, Len(s) - 1)

\* ------------------------------------------------------------------------
\* Shapes
\* ------------------------------------------------------------------------
ShapeError == << -1 >>
IsErr(s) == s = ShapeError

\* torch broadcasting of two shapes, right aligned
RECURSIVE BroadcastShape(_, _)
BroadcastShape(s, t) ==
    IF IsErr(s) \/ IsErr(t) THEN ShapeError
    ELSE IF s = <<>> THEN t
    ELSE IF t = <<>> THEN s
    ELSE LET a == Last(s)
             b == Last(t)
             rest == BroadcastShape(ButLast(s), ButLast(t))
         IN IF IsErr(rest) \/ ~(a = b \/ a = 1 \/ b = 1) THEN ShapeError
            ELSE Append(rest, IF a = 1 THEN b ELSE a)

\* x.unsqueeze(k), k counted from the front (1-based position of the new axis)
Unsqueeze(s, k) ==
    IF IsErr(s) THEN ShapeError
    ELSE SubSeq(s, 1, k - 1) \o <<1>> \o SubSeq(s, k, Len(s))

\* torch.sum(x, axis) / x.mean(axis), axis k counted from the front
ReduceShape(s, k) ==
    IF IsErr(s) THEN ShapeError
    ELSE SubSeq(s, 1, k - 1) \o SubSeq(s, k + 1, Len(s))

\* x.view(t) with no -1 in t
ViewShape(s, t) ==
    IF IsErr(s) \/ Prod(s) # Prod(t) THEN ShapeError ELSE t

\* x.view(-1, last)
ViewFlat(s, last) ==
    IF IsErr(s) \/ last = 0 \/ Prod(s) % last # 0 THEN ShapeError
    ELSE << Prod(s) \div last, last >>

\* nn.Linear(in, out) applied to x
LinearShape(s, in, out) ==
    IF IsErr(s) \/ Last(s) # in THEN ShapeError ELSE Append(ButLast(s), out)

\* nn.GroupNorm(groups, channels) applied to x of shape (N, C)
GroupNormShape(s, groups, channels) ==
    IF IsErr(s) \/ Len(s) < 2 THEN ShapeError
    ELSE IF s[2] # channels \/ s[2] % groups # 0 THEN ShapeError
    ELSE s

\* nn.LayerNorm(dim) applied to x
LayerNormShape(s, dim) ==
    IF IsErr(s) \/ Last(s) # dim THEN ShapeError ELSE s

\* torch.cat([s, t], dim=-1)
CatShape(s, t) ==
    IF IsErr(s) \/ IsErr(t) \/ Len(s) # Len(t) \/ ButLast(s) # ButLast(t) THEN ShapeError
    ELSE Append(ButLast(s), Last(s) + Last(t))

\* x.expand_as(y): sizes of x must be 1 or equal to those of y
ExpandAsShape(s, t) ==
    IF IsErr(s) \/ IsErr(t) \/ Len(s) > Len(t) THEN ShapeError
    ELSE IF BroadcastShape(s, t) = t THEN t ELSE ShapeError

\* torch.matmul(a, b) for operands of rank >= 3: batch axes broadcast
MatmulShape(a, b) ==
    IF IsErr(a) \/ IsErr(b) \/ Len(a) < 3 \/ Len(b) < 3 THEN ShapeError
    ELSE LET n == Len(a)
             m == Len(b)
             batch == BroadcastShape(SubSeq(a, 1, n - 2), SubSeq(b, 1, m - 2))
         IN IF IsErr(batch) \/ a[n] # b[m - 1] THEN ShapeError
            ELSE batch \o << a[n - 1], b[m] >>

\* a subscript shared by two einsum operands: sizes equal, or one of them 1
EinsumDim(a, b) == IF a = b \/ b = 1 THEN a ELSE IF a = 1 THEN b ELSE -1

\* MH_Linear.forward on shapes; w is the shape of self.weight (heads, in, out)
MH_LinearShape(x, w) ==
    IF IsErr(x) THEN ShapeError
    ELSE IF Len(x) = 3
    THEN LET h == EinsumDim(x[2], w[1])
             i == EinsumDim(x[3], w[2])
         IN IF h = -1 \/ i = -1 THEN ShapeError
            ELSE BroadcastShape(<< x[1], h, w[3] >>, << 1, w[1], w[3] >>)
    ELSE IF Len(x) = 4
    THEN LET h == EinsumDim(x[2], w[1])
             i == EinsumDim(x[4], w[2])
         IN IF h = -1 \/ i = -1 THEN ShapeError
            ELSE BroadcastShape(<< x[1], h, x[3], w[3] >>, << 1, w[1], 1, w[3] >>)
    ELSE ShapeError


\* ------------------------------------------------------------------------
\* Values.  A row is a sequence of numbers, one per head.
\* ------------------------------------------------------------------------
NormBound == 2

\* the learned parameters: small fixed integers that differ with the layer
\* (tag), the input channel and the output channel
Weight(tag, i, j) == ((i + 2 * j + tag) % 3) - 1
Bias(tag, j) == (j + tag) % 2

\* nn.Linear: out[j] = sum_i x[i] * W[i][j] + b[j], on one row
LinearV(x, tag, out) ==
    Tab(out, LAMBDA j :
        Add(SumSeq(Tab(Len(x), LAMBDA i : Mul(x[i], Weight(tag, i, j)))), Bias(tag, j)))

\* nn.CELU(1.3): identity on x >= 0, bounded below on x < 0
CELUV(x) == IF IsNaN(x) THEN NaN ELSE IF x >= 0 THEN x ELSE -1

\* nn.ReLU
ReLUV(x) == IF IsNaN(x) THEN NaN ELSE IF x >= 0 THEN x ELSE 0

\* torch.sigmoid, in units of 1/One, strictly inside (0, 1)
SigmoidV(x) == Clamp(Add(One \div 2, Mul(x, One \div 8)), 1, One - 1)

\* nn.GroupNorm(heads, embed_dim) on one row: each head is normalised by its
\* own statistics, which bounds its magnitude
GroupNormV(x) == Tab(Len(x), LAMBDA c : Clamp(x[c], -NormBound, NormBound))

\* nn.LayerNorm on one row: centred on the mean of the row, bounded magnitude
LayerNormV(x) ==
    LET mean == Div(SumSeq(x), Len(x))
    IN Tab(Len(x), LAMBDA c : Clamp(Add(x[c], Mul(-1, mean)), -NormBound, NormBound))

\* Linear -> CELU -> GroupNorm, the in_proj_* blocks, on one row
InProjV(x, tag) ==
    LET y == LinearV(x, tag, Len(x))
    IN GroupNormV(Tab(Len(x), LAMBDA c : CELUV(y[c])))

\* a 3-D branch that leaves the bias out
MH_Linear3Bug(x, weight, bias) ==
    Tab(Len(x), LAMBDA b : Tab(Len(x[b]), LAMBDA h : Tab(Len(bias[h]), LAMBDA o :
        SumSeq(Tab(Len(x[b][h]), LAMBDA i : Mul(x[b][h][i], weight[h][i][o]))))))

\* MH_Linear.forward, 3-D branch: x[b][h][i], weight[h][i][o], bias[h][o]
MH_Linear3V(x, weight, bias) ==
    Tab(Len(x), LAMBDA b : Tab(Len(x[b]), LAMBDA h : Tab(Len(bias[h]), LAMBDA o :
        Add(SumSeq(Tab(Len(x[b][h]), LAMBDA i : Mul(x[b][h][i], weight[h][i][o]))),
            bias[h][o]))))

\* MH_Linear.forward, 4-D branch: x[b][h][m][i]
MH_Linear4V(x, weight, bias) ==
    Tab(Len(x), LAMBDA b : Tab(Len(x[b]), LAMBDA h : Tab(Len(x[b][h]), LAMBDA m :
        Tab(Len(bias[h]), LAMBDA o :
            Add(SumSeq(Tab(Len(x[b][h][m]), LAMBDA i :
                    Mul(x[b][h][m][i], weight[h][i][o]))),
                bias[h][o])))))

\* F.softmax over one row of logits
SoftmaxV(x) ==
    IF \E m \in 1..Len(x) : IsNaN(x[m]) THEN Tab(Len(x), LAMBDA m : NaN)
    ELSE LET mx == MaxSeq(x)
             e == Tab(Len(x), LAMBDA m :
                     IF x[m] - mx < -ExpRange THEN 0 ELSE Pow2(ExpRange + x[m] - mx))
             tot == SumSeq(e)
         IN Tab(Len(x), LAMBDA m : (e[m] * One) \div tot)

\* att_mask is None
NoMask == <<>>

\* the parameters of SCAttEnc's three MH_Linear blocks in layer l; every
\* block is built with SCAttHeads heads, and lastBias is attention_last's bias
BasicWeight(l) == Tab(SCAttHeads, LAMBDA h : << << 1 + (h % 2) >> >>)
BasicBias(l) == Tab(SCAttHeads, LAMBDA h : << ((h + l) % 2) - 1 >>)
LastWeight(l) == Tab(SCAttHeads, LAMBDA h : << << 1 + ((h + l) % 2) >> >>)
LastBias(l, lastBias) == Tab(SCAttHeads, LAMBDA h : << lastBias >>)
Last2Weight(l) == Tab(SCAttHeads, LAMBDA h : << << 1 >> >>)
Last2Bias(l) == Tab(SCAttHeads, LAMBDA h : << (h + l) % 2 >>)

\* a masked pool that divides by the region count plus one
MaskedPoolBug(att_map, att_mask) ==
    Tab(Len(att_map), LAMBDA b : Tab(Len(att_map[b]), LAMBDA h :
        Tab(Len(att_map[b][h][1]), LAMBDA o :
            Div(SumSeq(Tab(Len(att_map[b][h]), LAMBDA m :
                    Mul(att_map[b][h][m][o], att_mask[b][m]))),
                Len(att_mask[b]) + 1))))

\* att_map_pool on the masked path (line 78) and on the mask-absent path (line 80)
MaskedPool(att_map, att_mask) ==
    Tab(Len(att_map), LAMBDA b : Tab(Len(att_map[b]), LAMBDA h :
        Tab(Len(att_map[b][h][1]), LAMBDA o :
            Div(SumSeq(Tab(Len(att_map[b][h]), LAMBDA m :
                    Mul(att_map[b][h][m][o], att_mask[b][m]))),
                SumSeq(att_mask[b])))))

MeanPool(att_map) ==
    Tab(Len(att_map), LAMBDA b : Tab(Len(att_map[b]), LAMBDA h :
        Tab(Len(att_map[b][h][1]), LAMBDA o :
            Div(SumSeq(Tab(Len(att_map[b][h]), LAMBDA m : att_map[b][h][m][o])),
                Len(att_map[b][h])))))

\* a scorer that leaves the scores as they are
MaskedFillNone(logits, att_mask) == logits

\* a scorer that fills the mask=1 positions
MaskedFillInverted(logits, att_mask) ==
    Tab(Len(logits), LAMBDA b : Tab(Len(logits[b]), LAMBDA h :
        Tab(Len(logits[b][h]), LAMBDA m :
            IF att_mask[b][m] = 1 THEN MaskFill ELSE logits[b][h][m])))

\* alpha_spatial.masked_fill(att_mask == 0, -1e9), the mask broadcast over heads
MaskedFill(logits, att_mask) ==
    Tab(Len(logits), LAMBDA b : Tab(Len(logits[b]), LAMBDA h :
        Tab(Len(logits[b][h]), LAMBDA m :
            IF att_mask[b][m] = 0 THEN MaskFill ELSE logits[b][h][m])))

\* SCAttEnc.forward on values, one definition per statement.
\* lines 72-73: att_map = attention_basic(query.unsqueeze(-2) * key)
QueryTimesKey(query, key) ==
    Tab(Len(key), LAMBDA b : Tab(Len(key[b]), LAMBDA h :
        Tab(Len(key[b][h]), LAMBDA m : Tab(Len(key[b][h][m]), LAMBDA d :
            Mul(query[b][h][d], key[b][h][m][d])))))

ReLU4(x) ==
    Tab(Len(x), LAMBDA b : Tab(Len(x[b]), LAMBDA h :
        Tab(Len(x[b][h]), LAMBDA m : Tab(Len(x[b][h][m]), LAMBDA o :
            ReLUV(x[b][h][m][o])))))

AttMap(query, key, l) ==
    ReLU4(MH_Linear4V(QueryTimesKey(query, key), BasicWeight(l), BasicBias(l)))

\* lines 75-80
AttMapPool(att_map, att_mask) ==
    IF att_mask # NoMask THEN MaskedPool(att_map, att_mask) ELSE MeanPool(att_map)

\* lines 83-84: attention_last(att_map).squeeze(-1)
Squeeze4(x) ==
    Tab(Len(x), LAMBDA b : Tab(Len(x[b]), LAMBDA h :
        Tab(Len(x[b][h]), LAMBDA m : x[b][h][m][1])))

Logits(att_map, l, lastBias) ==
    Squeeze4(MH_Linear4V(att_map, LastWeight(l), LastBias(l, lastBias)))

\* lines 85-87
Softmax3(x) == Tab(Len(x), LAMBDA b : Tab(Len(x[b]), LAMBDA h : SoftmaxV(x[b][h])))

AlphaSpatial(logits, att_mask) ==
    Softmax3(IF att_mask # NoMask THEN MaskedFill(logits, att_mask) ELSE logits)

\* line 92: torch.matmul(alpha_spatial.unsqueeze(-2), value2).squeeze(-2)
WeightedSum(alpha_spatial, value2) ==
    Tab(Len(value2), LAMBDA b : Tab(Len(value2[b]), LAMBDA h :
        Tab(Len(value2[b][h][1]), LAMBDA d :
            Div(SumSeq(Tab(Len(value2[b][h]), LAMBDA m :
                    Mul(alpha_spatial[b][h][m], value2[b][h][m][d]))),
                One))))

\* lines 95-96: torch.sigmoid(attention_last2(att_map_pool))
Sigmoid3(x) ==
    Tab(Len(x), LAMBDA b : Tab(Len(x[b]), LAMBDA h :
        Tab(Len(x[b][h]), LAMBDA d : SigmoidV(x[b][h][d]))))

AlphaChannel(att_map_pool, l) ==
    Sigmoid3(MH_Linear3V(att_map_pool, Last2Weight(l), Last2Bias(l)))

\* line 98: attn = value1 * value2 * alpha_channel
Gate(value1, ctx, alpha_channel) ==
    Tab(Len(value1), LAMBDA b : Tab(Len(value1[b]), LAMBDA h :
        Tab(Len(value1[b][h]), LAMBDA d :
            Div(Mul(Mul(value1[b][h][d], ctx[b][h][d]), alpha_channel[b][h][d]), One))))

\* the locals of one call of SCAttEnc.forward and its result
SCLocals(att_map, att_map_pool, logits, alpha_spatial, value1, value2, l) ==
    [attn |-> Gate(value1, WeightedSum(alpha_spatial, value2),
                   AlphaChannel(att_map_pool, l)),
     att_map |-> att_map, att_map_pool |-> att_map_pool,
     logits |-> logits, alpha_spatial |-> alpha_spatial]

SCFromLogits(att_map, logits, att_mask, value1, value2, l) ==
    SCLocals(att_map, AttMapPool(att_map, att_mask), logits,
             AlphaSpatial(logits, att_mask), value1, value2, l)

SCFromAttMap(att_map, att_mask, value1, value2, l, lastBias) ==
    SCFromLogits(att_map, Logits(att_map, l, lastBias), att_mask, value1, value2, l)

SCAttEncV(query, key, att_mask, value1, value2, l, lastBias) ==
    SCFromAttMap(AttMap(query, key, l), att_mask, value1, value2, l, lastBias)

\* SCAttEnc.forward on shapes; mid is att_mid_dim
SCAttEncShape(query, key, att_mask, value1, value2, mid) ==
    LET n == Len(mid)
        prod == BroadcastShape(Unsqueeze(query, Len(query)), key)
        att_map == MH_LinearShape(prod, << SCAttHeads, mid[1], mid[2] >>)
        mask1 == Unsqueeze(att_mask, 2)
        mask_ext == Unsqueeze(mask1, Len(mask1) + 1)
        att_map_pool ==
            IF att_mask # NoMask
            THEN LET num == BroadcastShape(att_map, mask_ext)
                 IN IF IsErr(num) THEN ShapeError
                    ELSE BroadcastShape(ReduceShape(num, Len(num) - 1),
                                        ReduceShape(mask_ext, Len(mask_ext) - 1))
            ELSE IF IsErr(att_map) THEN ShapeError
            ELSE ReduceShape(att_map, Len(att_map) - 1)
        last == MH_LinearShape(att_map, << SCAttHeads, mid[n - 1], 1 >>)
        alpha == IF IsErr(last) THEN ShapeError ELSE ButLast(last)
        filled == IF att_mask # NoMask
                  THEN (IF BroadcastShape(alpha, mask1) = alpha THEN alpha ELSE ShapeError)
                  ELSE alpha
        ctx == IF IsErr(filled) THEN ShapeError
               ELSE IF Len(filled) = 4 THEN MatmulShape(filled, value2)
               ELSE LET mm == MatmulShape(Unsqueeze(filled, Len(filled)), value2)
                    IN IF IsErr(mm) THEN ShapeError
                       ELSE ReduceShape(mm, Len(mm) - 1)
        alpha_channel == MH_LinearShape(att_map_pool, << SCAttHeads, mid[n - 1], mid[n] >>)
    IN BroadcastShape(BroadcastShape(value1, ctx), alpha_channel)


\* ------------------------------------------------------------------------
\* MultiHeadAttentionEnc
\* ------------------------------------------------------------------------

\* the parameter tag of block n of layer l (1..4 the in_proj blocks, 5 bifeat_emb)
Tag(l, n) == 5 * l + n

\* self.head_dim = embed_dim // self.num_heads
HeadDim(E, H) == E \div H

\* MultiHeadAttentionEnc.__init__: nn.GroupNorm(num_heads, embed_dim) refuses,
\* in the torch builds that check it at construction (ctorCheck), a channel
\* count that the group count does not divide; nothing else is checked
MHA_InitOK(E, H, ctorCheck) == ~ctorCheck \/ E % H = 0

\* Linear(embed_dim, od) -> CELU -> GroupNorm(num_heads, nc), on shapes
InProjShape(x, E, H, od, nc) == GroupNormShape(LinearShape(x, E, od), H, nc)

\* MultiHeadAttentionEnc.forward on shapes, for in_proj blocks whose Linear has
\* od outputs and whose GroupNorm has nc channels
MHA_ForwardShapeWith(query, key, mask, value1, value2, E, H, mid, od, nc) ==
    LET batch_size == query[1]
        hd == HeadDim(E, H)
        q == InProjShape(query, E, H, od, nc)
        k == InProjShape(ViewFlat(key, Last(key)), E, H, od, nc)
        v1 == InProjShape(value1, E, H, od, nc)
        v2 == InProjShape(ViewFlat(value2, Last(value2)), E, H, od, nc)
        \* x.view(batch_size, -1, num_heads, head_dim).transpose(1, 2)
        Split(x) == IF IsErr(x) \/ Prod(x) % (batch_size * H * hd) # 0 THEN ShapeError
                    ELSE << batch_size, H, Prod(x) \div (batch_size * H * hd), hd >>
        q3 == ViewShape(q, << batch_size, H, hd >>)
        v13 == ViewShape(v1, << batch_size, H, hd >>)
        attn == SCAttEncShape(q3, Split(k), mask, v13, Split(v2), mid)
    IN ViewShape(attn, << batch_size, H * hd >>)

\* a wrapper whose projections keep only num_heads * head_dim channels
MHA_ForwardShapeTruncating(query, key, mask, value1, value2, E, H, mid) ==
    MHA_ForwardShapeWith(query, key, mask, value1, value2, E, H, mid,
                         H * HeadDim(E, H), H * HeadDim(E, H))

\* MultiHeadAttentionEnc.forward on shapes: output_dim = embed_dim
MHA_ForwardShape(query, key, mask, value1, value2, E, H, mid) ==
    MHA_ForwardShapeWith(query, key, mask, value1, value2, E, H, mid, E, E)

\* key.view(-1, key.size()[-1]) on values: the rows of all samples, in order
Flatten(x) ==
    LET M == Len(x[1])
    IN Tab((Len(x) * M), LAMBDA n : x[((n - 1) \div M) + 1][((n - 1) % M) + 1])

\* lines 155-164: the in_proj_* blocks, on a batch of rows and on the rows of
\* all regions
InProjRows(x, tag) == Tab(Len(x), LAMBDA n : InProjV(x[n], tag))

\* q.view(batch_size, num_heads, head_dim)
SplitHeads3(x) == Tab(Len(x), LAMBDA b : Tab(Len(x[b]), LAMBDA h : << x[b][h] >>))

\* k.view(batch_size, -1, num_heads, head_dim).transpose(1, 2)
SplitHeads4(x, batch_size) ==
    Tab(batch_size, LAMBDA b : Tab(Len(x[1]), LAMBDA h :
        Tab(Len(x) \div batch_size, LAMBDA m :
            << x[(b - 1) * (Len(x) \div batch_size) + m][h] >>)))

\* attn.view(batch_size, num_heads * head_dim)
MergeHeads(x) == Tab(Len(x), LAMBDA b : Tab(Len(x[b]), LAMBDA c : x[b][c][1]))

\* the record of one call of the wrapper: its arguments, the scorer's locals
\* and the value it returns
CallRecord(r, query, key, mask, value1, value2) ==
    [ret |-> MergeHeads(r.attn),
     att_map |-> r.att_map, att_map_pool |-> r.att_map_pool,
     logits |-> r.logits, alpha_spatial |-> r.alpha_spatial,
     query |-> query, key |-> key, mask |-> mask,
     value1 |-> value1, value2 |-> value2]

\* MultiHeadAttentionEnc.forward on values
MHA_ForwardV(query, key, mask, value1, value2, l, lastBias) ==
    CallRecord(SCAttEncV(SplitHeads3(InProjRows(query, Tag(l, 1))),
                         SplitHeads4(InProjRows(Flatten(key), Tag(l, 2)), Len(query)),
                         mask,
                         SplitHeads3(InProjRows(value1, Tag(l, 3))),
                         SplitHeads4(InProjRows(Flatten(value2), Tag(l, 4)), Len(query)),
                         l, lastBias),
               query, key, mask, value1, value2)

\* ------------------------------------------------------------------------
\* VP_Refine_Module
\* ------------------------------------------------------------------------

\* a substitute that averages every region, masked or not
InitialGvUnmasked(att_feats, att_mask) ==
    Tab(Len(att_feats), LAMBDA b : Tab(Len(att_feats[b][1]), LAMBDA c :
        Div(SumSeq(Tab(Len(att_feats[b]), LAMBDA m : att_feats[b][m][c])),
            Len(att_feats[b]))))

\* the degenerate-gv_feat substitute of line 221, on values and on shapes
InitialGv(att_feats, att_mask) ==
    Tab(Len(att_feats), LAMBDA b : Tab(Len(att_feats[b][1]), LAMBDA c :
        Div(SumSeq(Tab(Len(att_feats[b]), LAMBDA m :
                Mul(att_feats[b][m][c], att_mask[b][m]))),
            SumSeq(att_mask[b]))))

InitialGvShape(att_shape, mask_shape) ==
    LET ext == Unsqueeze(mask_shape, Len(mask_shape) + 1)
        num == BroadcastShape(att_shape, ext)
    IN IF IsErr(num) THEN ShapeError
       ELSE BroadcastShape(ReduceShape(num, 2), ReduceShape(ext, 2))

\* a call that does not pass the mask on
LayerCallNoMask(l, gv, att, mask, lastBias) ==
    MHA_ForwardV(gv, att, NoMask, gv, att, l, lastBias)

\* the call of line 226: layer(gv_feat, att_feats, att_mask, gv_feat, att_feats)
LayerCall(l, gv, att, mask, lastBias) ==
    MHA_ForwardV(gv, att, mask, gv, att, l, lastBias)

\* torch.cat([gv_feat.unsqueeze(1).expand_as(att_feats), att_feats], dim=-1)
CatExpandV(gv, att) ==
    Tab(Len(att), LAMBDA b : Tab(Len(att[b]), LAMBDA m : gv[b] \o att[b][m]))

CatExpandShape(gv, att) == CatShape(ExpandAsShape(Unsqueeze(gv, 2), att), att)

\* self.bifeat_emb[l](att_feats_cat) + att_feats
FuseV(l, cat, att) ==
    Tab(Len(att), LAMBDA b : Tab(Len(att[b]), LAMBDA m :
        LET lin == LinearV(cat[b][m], Tag(l, 5), Len(att[b][m]))
        IN Tab(Len(att[b][m]), LAMBDA c : Add(ReLUV(lin[c]), att[b][m][c]))))

FuseShape(cat, att, E) == BroadcastShape(LinearShape(cat, 2 * E, E), att)

\* self.layer_norms[l](att_feats)
NormV(att) == Tab(Len(att), LAMBDA b : Tab(Len(att[b]), LAMBDA m : LayerNormV(att[b][m])))

RECURSIVE ConcatRows(_, _)
ConcatRows(arr, b) ==
    IF arr = <<>> THEN <<>> ELSE Head(arr)[b] \o ConcatRows(Tail(arr), b)

\* torch.cat(feat_arr, dim=-1)
CatAllV(arr) == Tab(Len(arr[1]), LAMBDA b : ConcatRows(arr, b))

RECURSIVE CatAllShape(_)
CatAllShape(shapes) ==
    IF Len(shapes) = 1 THEN shapes[1]
    ELSE CatShape(shapes[1], CatAllShape(Tail(shapes)))

\* self.proj on values: a row of n entries back to the width of one entry
ProjV(x, n) == Tab(Len(x), LAMBDA b : LinearV(x[b], 0, Len(x[b]) \div n))

\* self.layer_norm on values
FinalNormV(x) == Tab(Len(x), LAMBDA b : LayerNormV(x[b]))

\* ------------------------------------------------------------------------
\* State
\* ------------------------------------------------------------------------
VARIABLES
    embed_dim, att_heads, layer_num, att_mid_dim,  \* constructor arguments
    gn_ctor_check,     \* whether this torch build checks GroupNorm at construction
    last_bias,         \* the bias of every attention_last block
    proj_in,           \* self.proj.in_features, 0 before construction
    in_gv, in_gv_shape, in_att, in_att_shape, in_mask, in_mask_shape, \* arguments
    pc, err_at, i,
    gv_feat, gv_shape, att_feats, att_shape, att_mask,
    att_feats_cat, cat_shape, feat_arr, feat_shapes,
    calls,             \* the wrapper calls that returned, in order, with their locals
    lin                \* a stand-alone MH_Linear: its parameters, inputs and outputs

params == << embed_dim, att_heads, layer_num, att_mid_dim, gn_ctor_check, last_bias >>
inputs == << in_gv, in_gv_shape, in_att, in_att_shape, in_mask, in_mask_shape >>
locals == << gv_feat, gv_shape, att_feats, att_shape, att_mask,
             att_feats_cat, cat_shape, feat_arr, feat_shapes, calls, i >>
vars == << params, inputs, locals, proj_in, pc, err_at, lin >>

\* Two forward calls are run side by side on the same module: every value is a
\* pair indexed by the call.  The calls get the same shapes, mask and global
\* feature; their region features may differ where the mask is 0.
Runs == {1, 2}

EmbedDims == {1024, 512, 1020}
HeadCounts == {8, 4, 1, 5}
LastBiasValues == {0, -2000000000}
BatchSize == 2

RowA(W) == Tab(W, LAMBDA c : c % 3)
RowB(W) == Tab(W, LAMBDA c : (c + 1) % 2)
RowP(W) == Tab(W, LAMBDA c : 2 - (c % 2))
RowG(W) == Tab(W, LAMBDA c : 1 + (c % 2))
RowOf(kind, W) == IF kind = "a" THEN RowA(W) ELSE RowB(W)

AllOnes == Tab(NumRegions, LAMBDA m : 1)
DefaultKinds == Tab(NumRegions, LAMBDA m : IF m % 2 = 1 THEN "a" ELSE "b")

\* the region features of call r: sample 1 as chosen, its mask-0 rows replaced
\* in call 2 when pert; sample 2 fixed
AttInput(r, kinds, mask, pert, W) ==
    Tab(BatchSize, LAMBDA b : Tab(NumRegions, LAMBDA m :
        IF b = 1
        THEN (IF r = 2 /\ pert /\ mask # NoMask /\ mask[1][m] = 0 THEN RowP(W)
              ELSE RowOf(kinds[m], W))
        ELSE RowOf(DefaultKinds[m], W)))

Init ==
    \E E \in EmbedDims, H \in HeadCounts, N \in 0..MaxLayers, gn \in BOOLEAN,
       degen \in BOOLEAN, nomask \in BOOLEAN,
       mrow \in [1..NumRegions -> {0, 1}], kinds \in [1..NumRegions -> {"a", "b"}],
       pert \in BOOLEAN, lb \in LastBiasValues :
      LET mask == IF nomask THEN NoMask ELSE << mrow, AllOnes >>
      IN
      /\ \/ E = FinalNormDim /\ H = SCAttHeads /\ gn
         \/ mrow = AllOnes /\ kinds = DefaultKinds /\ ~pert /\ lb = 0 /\ ~nomask
      /\ nomask => (mrow = AllOnes /\ ~pert)
      /\ embed_dim = E /\ att_heads = H /\ layer_num = N
      /\ att_mid_dim = << HeadDim(E, H), HeadDim(E, H) \div 2, HeadDim(E, H) >>
      /\ gn_ctor_check = gn /\ last_bias = lb
      /\ proj_in = 0
      /\ in_att = [r \in Runs |-> AttInput(r, kinds, mask, pert, H)]
      /\ in_att_shape = << BatchSize, NumRegions, E >>
      /\ in_mask = mask
      /\ in_mask_shape = IF nomask THEN NoMask ELSE << BatchSize, NumRegions >>
      /\ in_gv = [r \in Runs |-> Tab(BatchSize, LAMBDA b :
                     IF degen THEN << 0 >> ELSE RowG(H))]
      /\ in_gv_shape = IF degen THEN << BatchSize, 1 >> ELSE << BatchSize, E >>
      /\ pc = "new" /\ err_at = "" /\ i = 0
      /\ gv_feat = [r \in Runs |-> <<>>] /\ gv_shape = <<>>
      /\ att_feats = [r \in Runs |-> <<>>] /\ att_shape = <<>>
      /\ att_mask = NoMask
      /\ att_feats_cat = [r \in Runs |-> <<>>] /\ cat_shape = <<>>
      /\ feat_arr = [r \in Runs |-> <<>>] /\ feat_shapes = <<>>
      /\ calls = [r \in Runs |-> <<>>]
      /\ lin = [pc |-> "off"]

\* ------------------------------------------------------------------------
\* Actions
\* ------------------------------------------------------------------------

Fail(where) == pc' = "error" /\ err_at' = where

\* VP_Refine_Module.__init__ (lines 191-217)
Construct ==
    /\ pc = "new"
    /\ IF layer_num > 0 /\ ~MHA_InitOK(embed_dim, att_heads, gn_ctor_check)
       THEN /\ pc' = "ctor_error" /\ err_at' = "ctor"
            /\ UNCHANGED proj_in
       ELSE /\ pc' = "ready" /\ UNCHANGED err_at
            /\ proj_in' = embed_dim * (layer_num + 1)
    /\ UNCHANGED << lin, params, inputs, locals >>

\* forward, lines 220-223: the starting global feature and the accumulator
Enter ==
    /\ pc = "ready"
    /\ LET degen == Last(in_gv_shape) = 1
           shape == IF ~degen THEN in_gv_shape
                    ELSE IF in_mask = NoMask THEN ShapeError
                    ELSE InitialGvShape(in_att_shape, in_mask_shape)
       IN IF IsErr(shape)
          THEN /\ Fail("init_gv")
               /\ UNCHANGED << gv_feat, gv_shape, feat_arr, feat_shapes >>
          ELSE /\ gv_feat' = [r \in Runs |->
                                IF degen THEN InitialGv(in_att[r], in_mask) ELSE in_gv[r]]
               /\ gv_shape' = shape
               /\ feat_arr' = [r \in Runs |-> << gv_feat'[r] >>]
               /\ feat_shapes' = << shape >>
               /\ pc' = IF layer_num > 0 THEN "attn" ELSE "concat"
               /\ UNCHANGED err_at
    /\ att_feats' = in_att /\ att_shape' = in_att_shape /\ att_mask' = in_mask
    /\ UNCHANGED << lin, params, inputs, proj_in, att_feats_cat, cat_shape, calls, i >>

\* line 226: gv_feat = layer(gv_feat, att_feats, att_mask, gv_feat, att_feats)
Attend ==
    /\ pc = "attn"
    /\ LET mshape == IF att_mask = NoMask THEN NoMask ELSE in_mask_shape
           shape == MHA_ForwardShape(gv_shape, att_shape, mshape, gv_shape, att_shape,
                                     embed_dim, att_heads, att_mid_dim)
       IN IF IsErr(shape)
          THEN Fail("attn") /\ UNCHANGED << gv_feat, gv_shape, calls >>
          ELSE /\ calls' = [r \in Runs |->
                              Append(calls[r], LayerCall(i, gv_feat[r], att_feats[r],
                                                         att_mask, last_bias))]
               /\ gv_feat' = [r \in Runs |-> Last(calls'[r]).ret]
               /\ gv_shape' = shape
               /\ pc' = "cat" /\ UNCHANGED err_at
    /\ UNCHANGED << lin, params, inputs, proj_in, att_feats, att_shape, att_mask,
                    att_feats_cat, cat_shape, feat_arr, feat_shapes, i >>

\* line 227: att_feats_cat = cat([gv_feat.unsqueeze(1).expand_as(att_feats), att_feats])
Cat ==
    /\ pc = "cat"
    /\ LET shape == CatExpandShape(gv_shape, att_shape)
       IN IF IsErr(shape)
          THEN Fail("cat") /\ UNCHANGED << att_feats_cat, cat_shape >>
          ELSE /\ att_feats_cat' = [r \in Runs |-> CatExpandV(gv_feat[r], att_feats[r])]
               /\ cat_shape' = shape
               /\ pc' = "fuse" /\ UNCHANGED err_at
    /\ UNCHANGED << lin, params, inputs, proj_in, gv_feat, gv_shape, att_feats, att_shape,
                    att_mask, feat_arr, feat_shapes, calls, i >>

\* line 230: att_feats = self.bifeat_emb[i](att_feats_cat) + att_feats
Fuse ==
    /\ pc = "fuse"
    /\ LET shape == FuseShape(cat_shape, att_shape, embed_dim)
       IN IF IsErr(shape)
          THEN Fail("fuse") /\ UNCHANGED << att_feats, att_shape >>
          ELSE /\ att_feats' = [r \in Runs |-> FuseV(i, att_feats_cat[r], att_feats[r])]
               /\ att_shape' = shape
               /\ pc' = "norm" /\ UNCHANGED err_at
    /\ UNCHANGED << lin, params, inputs, proj_in, gv_feat, gv_shape, att_mask,
                    att_feats_cat, cat_shape, feat_arr, feat_shapes, calls, i >>

\* line 231: att_feats = self.layer_norms[i](att_feats)
Norm ==
    /\ pc = "norm"
    /\ LET shape == LayerNormShape(att_shape, embed_dim)
       IN IF IsErr(shape)
          THEN Fail("norm") /\ UNCHANGED << att_feats, att_shape >>
          ELSE /\ att_feats' = [r \in Runs |-> NormV(att_feats[r])]
               /\ att_shape' = shape
               /\ pc' = "append" /\ UNCHANGED err_at
    /\ UNCHANGED << lin, params, inputs, proj_in, gv_feat, gv_shape, att_mask,
                    att_feats_cat, cat_shape, feat_arr, feat_shapes, calls, i >>

\* an append that stores the previous entry again instead of the new gv_feat
AppendFeatStale ==
    /\ pc = "append"
    /\ feat_arr' = [r \in Runs |-> Append(feat_arr[r], Last(feat_arr[r]))]
    /\ feat_shapes' = Append(feat_shapes, gv_shape)
    /\ i' = i + 1
    /\ pc' = IF i + 1 < layer_num THEN "attn" ELSE "concat"
    /\ UNCHANGED << lin, params, inputs, proj_in, err_at, gv_feat, gv_shape, att_feats,
                    att_shape, att_mask, att_feats_cat, cat_shape, calls >>

\* line 232: feat_arr.append(gv_feat), and the loop's next iteration
AppendFeat ==
    /\ pc = "append"
    /\ feat_arr' = [r \in Runs |-> Append(feat_arr[r], gv_feat[r])]
    /\ feat_shapes' = Append(feat_shapes, gv_shape)
    /\ i' = i + 1
    /\ pc' = IF i + 1 < layer_num THEN "attn" ELSE "concat"
    /\ UNCHANGED << lin, params, inputs, proj_in, err_at, gv_feat, gv_shape, att_feats,
                    att_shape, att_mask, att_feats_cat, cat_shape, calls >>

\* line 234: gv_feat = torch.cat(feat_arr, dim=-1)
Concat ==
    /\ pc = "concat"
    /\ LET shape == CatAllShape(feat_shapes)
       IN IF IsErr(shape)
          THEN Fail("concat") /\ UNCHANGED << gv_feat, gv_shape >>
          ELSE /\ gv_feat' = [r \in Runs |-> CatAllV(feat_arr[r])]
               /\ gv_shape' = shape
               /\ pc' = "proj" /\ UNCHANGED err_at
    /\ UNCHANGED << lin, params, inputs, proj_in, att_feats, att_shape, att_mask,
                    att_feats_cat, cat_shape, feat_arr, feat_shapes, calls, i >>

\* line 235: gv_feat = self.proj(gv_feat)
Proj ==
    /\ pc = "proj"
    /\ LET shape == LinearShape(gv_shape, proj_in, embed_dim)
       IN IF IsErr(shape)
          THEN Fail("proj") /\ UNCHANGED << gv_feat, gv_shape >>
          ELSE /\ gv_feat' = [r \in Runs |-> ProjV(gv_feat[r], Len(feat_arr[r]))]
               /\ gv_shape' = shape
               /\ pc' = "final_norm" /\ UNCHANGED err_at
    /\ UNCHANGED << lin, params, inputs, proj_in, att_feats, att_shape, att_mask,
                    att_feats_cat, cat_shape, feat_arr, feat_shapes, calls, i >>

\* lines 236-237: gv_feat = self.layer_norm(gv_feat); return gv_feat, att_feats
FinalNorm ==
    /\ pc = "final_norm"
    /\ LET shape == LayerNormShape(gv_shape, FinalNormDim)
       IN IF IsErr(shape)
          THEN Fail("final_norm") /\ UNCHANGED << gv_feat, gv_shape >>
          ELSE /\ gv_feat' = [r \in Runs |-> FinalNormV(gv_feat[r])]
               /\ gv_shape' = shape
               /\ pc' = "done" /\ UNCHANGED err_at
    /\ UNCHANGED << lin, params, inputs, proj_in, att_feats, att_shape, att_mask,
                    att_feats_cat, cat_shape, feat_arr, feat_shapes, calls, i >>

Next ==
    \/ Construct
    \/ Enter
    \/ Attend
    \/ Cat
    \/ Fuse
    \/ Norm
    \/ AppendFeat
    \/ Concat
    \/ Proj
    \/ FinalNorm

Spec == Init /\ [][Next]_vars

\* ------------------------------------------------------------------------
\* Properties
\* ------------------------------------------------------------------------

\* forward has passed lines 220-223
Entered == feat_arr[1] # <<>>
Degenerate == Last(in_gv_shape) = 1
Masked == in_mask # NoMask
CallIds(r) == 1..Len(calls[r])
Heads(c) == 1..Len(c.alpha_spatial[1])
Samples == 1..BatchSize
Regions == 1..NumRegions

Abs(x) == IF x < 0 THEN -x ELSE x

\* some mask=1 region of the row has a score that exceeds the fill value by
\* more than the range of exp
Saturates(c, b, h) ==
    \E m \in Regions : c.mask[b][m] = 1 /\ c.logits[b][h][m] > MaskFill + ExpRange

RowSumsToOne(c, b, h) ==
    /\ ~IsNaN(SumSeq(c.alpha_spatial[b][h]))
    /\ Abs(SumSeq(c.alpha_spatial[b][h]) - One) < NumRegions

MaskedGetZero(c, b, h) ==
    \A m \in Regions : c.mask[b][m] = 0 => c.alpha_spatial[b][h][m] = 0

\* C1 (as claimed): in every call of the scorer with a mask, the spatial weights
\* of every (sample, head) sum to 1 and every mask=0 region has weight exactly
\* 0, for every mask, all-zero rows included.
C1_Original ==
    \A r \in Runs : \A k \in CallIds(r) :
        LET c == calls[r][k]
        IN c.mask # NoMask =>
             \A b \in Samples : \A h \in Heads(c) :
                 RowSumsToOne(c, b, h) /\ MaskedGetZero(c, b, h)

\* C1 (amended): the weights of every (sample, head) sum to 1 within rounding;
\* every mask=0 region has weight exactly 0 in every row in which some mask=1
\* region scores more than -1e9 plus the range of exp.
C1_MaskedSoftmax ==
    \A r \in Runs : \A k \in CallIds(r) :
        LET c == calls[r][k]
        IN c.mask # NoMask =>
             \A b \in Samples : \A h \in Heads(c) :
                 /\ RowSumsToOne(c, b, h)
                 /\ Saturates(c, b, h) => MaskedGetZero(c, b, h)

C1_Witness ==
    \E r \in Runs : \E k \in CallIds(r) :
        LET c == calls[r][k]
        IN /\ c.mask # NoMask
           /\ \E b \in Samples : \E h \in Heads(c) :
                 /\ Saturates(c, b, h)
                 /\ \E m \in Regions : c.mask[b][m] = 0 /\ c.logits[b][h][m] > 0
                 /\ MaskedGetZero(c, b, h)

\* C2 (as claimed): with 8 heads dividing embed_dim, a mask and any layer count,
\* forward completes and returns a global feature of shape [B, embed_dim] and
\* region features of shape [B, M, embed_dim].
C2_OutputDimIsEmbedDim ==
    (pc \in {"done", "error"} /\ Masked
        /\ att_heads = SCAttHeads /\ embed_dim % att_heads = 0)
    => /\ pc = "done"
       /\ gv_shape = << BatchSize, embed_dim >>
       /\ att_shape = << BatchSize, NumRegions, embed_dim >>

\* the mask=1 regions of sample b, in order
ValidRegions(mask, b) ==
    SelectSeq(Tab(Len(mask[b]), LAMBDA m : m), LAMBDA m : mask[b][m] = 1)

\* the sum of channel c over the mask=1 regions of sample b divided by their number
MaskedMean(att, mask, b, c) ==
    Div(SumSeq(Tab(Len(ValidRegions(mask, b)), LAMBDA j :
            att[b][ValidRegions(mask, b)[j]][c])),
        Len(ValidRegions(mask, b)))

StartingGv(r) ==
    IF Degenerate
    THEN Tab(BatchSize, LAMBDA b :
             Tab(Len(in_att[r][b][1]), LAMBDA c : MaskedMean(in_att[r], in_mask, b, c)))
    ELSE in_gv[r]

\* C3: the global feature before layer 0, also stored as the first entry of the
\* accumulator, is the mean of the region features over the mask=1 regions when
\* the supplied global feature has last dimension 1, and the supplied global
\* feature otherwise.
C3_InitialGlobalFeature ==
    Entered =>
        \A r \in Runs :
            /\ feat_arr[r][1] = StartingGv(r)
            /\ (calls[r] = <<>> /\ pc \in {"attn", "concat"}) => gv_feat[r] = StartingGv(r)
            /\ gv_shape # <<>> => feat_shapes[1] = << BatchSize, embed_dim >>

C3_Witness ==
    /\ Entered /\ Degenerate /\ pc = "attn"
    /\ \E m \in Regions : in_mask[1][m] = 0 /\ SumSeq(in_att[1][1][m]) > 0
    /\ \E m \in Regions : in_mask[1][m] = 1
    /\ gv_feat[1] = StartingGv(1)

\* C4: for a sample whose mask is all ones, the pooled feature of the masked
\* path equals the plain mean over the regions, the pooled feature of the
\* mask-absent path.
C4_PoolAllOnes ==
    \A r \in Runs : \A k \in CallIds(r) :
        LET c == calls[r][k]
        IN \A b \in Samples :
              (c.mask = NoMask \/ c.mask[b] = AllOnes)
              => c.att_map_pool[b] = MeanPool(c.att_map)[b]

C4_Witness ==
    \E r \in Runs : \E k \in CallIds(r) :
        LET c == calls[r][k]
        IN /\ c.mask # NoMask /\ c.mask[1] = AllOnes
           /\ \E h \in Heads(c) : c.att_map[1][h][1] # c.att_map[1][h][2]
           /\ c.att_map_pool[1] = MeanPool(c.att_map)[1]

C7_Accumulator ==
    Entered =>
        /\ Len(feat_shapes) = i + 1
        /\ \A r \in Runs :
              /\ Len(feat_arr[r]) = i + 1
              /\ feat_arr[r][1] = StartingGv(r)
              /\ \A k \in 1..i : feat_arr[r][k + 1] = calls[r][k].ret
        /\ pc = "concat" =>
              /\ i = layer_num
              /\ CatAllShape(feat_shapes) = << BatchSize, embed_dim * (layer_num + 1) >>
              /\ Last(CatAllShape(feat_shapes)) = proj_in

C7_Witness ==
    /\ pc = "concat" /\ layer_num = MaxLayers /\ Len(feat_arr[1]) = MaxLayers + 1
    /\ feat_arr[1][2] # feat_arr[1][1]
    /\ feat_arr[1][2] = calls[1][1].ret

\* C8: in layer i the wrapper is called with query = value1 = the running global
\* feature, key = value2 = the running region features, and the mask; the fusion
\* block reads the global feature that call returned together with the region
\* features from before the update; the next region features are
\* layer_norm_i(fusion_i(concat) + old region features); the mask never changes.
C8_LayerOrder ==
    /\ [][(pc = "attn" /\ pc' = "cat") =>
            \A r \in Runs :
               LET c == Last(calls'[r])
               IN /\ Len(calls'[r]) = i + 1
                  /\ c.query = gv_feat[r] /\ c.value1 = gv_feat[r]
                  /\ c.key = att_feats[r] /\ c.value2 = att_feats[r]
                  /\ c.mask = att_mask
                  /\ gv_feat'[r] = c.ret
                  /\ att_feats'[r] = att_feats[r]]_vars
    /\ [](pc = "fuse" =>
            \A r \in Runs :
               /\ att_feats[r] = Last(calls[r]).key
               /\ att_feats_cat[r] = CatExpandV(Last(calls[r]).ret, Last(calls[r]).key))
    /\ [](pc = "append" =>
            \A r \in Runs :
               att_feats[r] = NormV(FuseV(i, CatExpandV(Last(calls[r]).ret,
                                                        Last(calls[r]).key),
                                          Last(calls[r]).key)))
    /\ [](Entered => att_mask = in_mask)
    /\ [][Entered => att_mask' = att_mask]_vars

C8_Witness ==
    /\ pc = "append" /\ i = 1 /\ Masked
    /\ Last(calls[1]).query = calls[1][1].ret
    /\ Last(calls[1]).query # feat_arr[1][1]
    /\ att_feats[1] # Last(calls[1]).key

\* C9 (as claimed): for every head count that divides embed_dim the call of the
\* wrapper completes and returns a tensor of shape [B, embed_dim].
C9_HeadCountHonoured ==
    (embed_dim % att_heads = 0 /\ Masked) =>
        /\ err_at # "attn"
        /\ pc = "cat" => gv_shape = << BatchSize, embed_dim >>

\* every sample has a mask=1 region
EverySampleValid == Masked /\ \A b \in Samples : \E m \in Regions : in_mask[b][m] = 1

AllSaturate ==
    \A r \in Runs : \A k \in CallIds(r) :
        \A b \in Samples : \A h \in Heads(calls[r][k]) : Saturates(calls[r][k], b, h)

LinHeads == 2
LinRows == 2
LinIn == 2
LinOut == 2
LinEntries == {-1, 0, 2}

\* no VP_Refine_Module is under construction
NoRefine ==
    /\ embed_dim = 0 /\ att_heads = 0 /\ layer_num = 0 /\ att_mid_dim = <<>>
    /\ gn_ctor_check = FALSE /\ last_bias = 0 /\ proj_in = 0
    /\ in_att = [r \in Runs |-> <<>>] /\ in_att_shape = <<>>
    /\ in_mask = NoMask /\ in_mask_shape = NoMask
    /\ in_gv = [r \in Runs |-> <<>>] /\ in_gv_shape = <<>>
    /\ pc = "off" /\ err_at = "" /\ i = 0
    /\ gv_feat = [r \in Runs |-> <<>>] /\ gv_shape = <<>>
    /\ att_feats = [r \in Runs |-> <<>>] /\ att_shape = <<>>
    /\ att_mask = NoMask
    /\ att_feats_cat = [r \in Runs |-> <<>>] /\ cat_shape = <<>>
    /\ feat_arr = [r \in Runs |-> <<>>] /\ feat_shapes = <<>>
    /\ calls = [r \in Runs |-> <<>>]

InitLin ==
    \E base \in [1..LinIn -> LinEntries], wtag \in 0..2, btag \in 0..1, m \in 1..LinRows :
      /\ NoRefine
      /\ lin = [pc |-> "ready",
                weight |-> Tab(LinHeads, LAMBDA h : Tab(LinIn, LAMBDA k :
                               Tab(LinOut, LAMBDA o : Weight(wtag + 3 * h, k, o)))),
                bias |-> Tab(LinHeads, LAMBDA h : Tab(LinOut, LAMBDA o :
                               Bias(btag + h, o))),
                x |-> << Tab(LinHeads, LAMBDA h : Tab(LinRows, LAMBDA r :
                               Tab(LinIn, LAMBDA k : base[k] * h + r))) >>,
                row |-> m,
                out3 |-> <<>>, shape3 |-> <<>>,
                out4 |-> <<>>, shape4 |-> <<>>]

\* x[:, :, m, :], a 3-D tensor
SelectRow(x, m) == Tab(Len(x), LAMBDA b : Tab(Len(x[b]), LAMBDA h : x[b][h][m]))

\* MH_Linear.forward called with the 3-D tensor x[:, :, row, :]
Forward3 ==
    /\ lin.pc = "ready" /\ lin.out3 = <<>>
    /\ lin' = [lin EXCEPT
                 !.out3 = MH_Linear3V(SelectRow(lin.x, lin.row), lin.weight, lin.bias),
                 !.shape3 = MH_LinearShape(<< 1, LinHeads, LinIn >>,
                                           << LinHeads, LinIn, LinOut >>)]
    /\ UNCHANGED << params, inputs, locals, proj_in, pc, err_at >>

\* MH_Linear.forward called with the 4-D tensor x
Forward4 ==
    /\ lin.pc = "ready" /\ lin.out4 = <<>>
    /\ lin' = [lin EXCEPT
                 !.out4 = MH_Linear4V(lin.x, lin.weight, lin.bias),
                 !.shape4 = MH_LinearShape(<< 1, LinHeads, LinRows, LinIn >>,
                                           << LinHeads, LinIn, LinOut >>)]
    /\ UNCHANGED << params, inputs, locals, proj_in, pc, err_at >>

NextLin ==
    \/ Forward3
    \/ Forward4

SpecLin == InitLin /\ [][NextLin]_vars

\* sum over i of x[i] * W[i][o], plus b[o]
Affine(x, W, b, o) ==
    LET S[k \in 0..Len(x)] == IF k = 0 THEN 0 ELSE S[k - 1] + x[k] * W[k][o]
    IN S[Len(x)] + b[o]

\* C5: called with a 3-D tensor and with a 4-D tensor, MH_Linear maps the row
\* x[b, h, (m,) :] to sum_i x[i] * W[h, i, o] + bias[h, o]; the two branches
\* give the same result on the same row, and differ only in the rank of the
\* output.
C5_SameAffineMap ==
    /\ lin.pc = "ready" /\ lin.out4 # <<>> =>
         /\ lin.shape4 = << 1, LinHeads, LinRows, LinOut >>
         /\ \A h \in 1..LinHeads : \A m \in 1..LinRows : \A o \in 1..LinOut :
               lin.out4[1][h][m][o] =
                   Affine(lin.x[1][h][m], lin.weight[h], lin.bias[h], o)
    /\ lin.pc = "ready" /\ lin.out3 # <<>> =>
         /\ lin.shape3 = << 1, LinHeads, LinOut >>
         /\ \A h \in 1..LinHeads : \A o \in 1..LinOut :
               lin.out3[1][h][o] =
                   Affine(lin.x[1][h][lin.row], lin.weight[h], lin.bias[h], o)
    /\ lin.pc = "ready" /\ lin.out3 # <<>> /\ lin.out4 # <<>> =>
         lin.out3 = SelectRow(lin.out4, lin.row)

C5_Witness ==
    /\ lin.pc = "ready" /\ lin.out3 # <<>> /\ lin.out4 # <<>>
    /\ lin.out3 = SelectRow(lin.out4, lin.row)
    /\ \E h \in 1..LinHeads : \E o \in 1..LinOut : lin.bias[h][o] # 0
    /\ lin.out3[1][1] # lin.out3[1][2]


====
